---- MODULE Spec2Model ----
(***************************************************************************)
(* A model of workout_gpx_rs: the GPX loader (src/src/lib.rs), the batch   *)
(* driver (src/src/main.rs) and the SQLite writer (src/src/sql.rs).        *)
(*                                                                         *)
(* Option<T> is modelled as a sequence: None is <<>> and Some(x) is <<x>>. *)
(* Coordinates are fixed-point integers in units of 1e-8 degree, so that   *)
(* EPSILON (1e-7) is 10 units and a distance test sqrt(a*a+b*b) <= EPSILON *)
(* is the integer test a*a + b*b <= EPSILON*EPSILON.                       *)
(***************************************************************************)
EXTENDS Integers, Sequences, FiniteSets, TLC

VARIABLES
  path,             \* load_gpx: the path argument (a sequence of path tokens)
  events,           \* load_gpx: the events the EventReader yields for the file
  lpc,              \* load_gpx: position ("start", "loop", "ok", "none", "err", "panic")
  pos,              \* load_gpx: number of events consumed by the for loop
  records,          \* load_gpx: Vec<Record> built so far
  current_element,  \* load_gpx: name of the element opened last
  record,           \* load_gpx: the Record accumulator
  activity,         \* load_gpx: the classified activity (None before classification)
  timestamp,        \* load_gpx: the reference epoch (None before classification)
  result,           \* load_gpx: Some(Workout) once it has returned Ok(Some(..))
  is_file,          \* main: args.path is a file (TRUE) or a directory (FALSE)
  files,            \* main: the file, or the directory's entries, each [path, events]
  mpc,              \* main: position ("load", "call", "insert", "panic")
  fidx,             \* main: number of entries whose load_gpx call has been started
  workouts,         \* main: Vec<Workout> collected for insertion
  concurrency,      \* main: args.concurrency
  batch,            \* sender: the Workouts it sends on the channel, in order
  sent,             \* sender: number of Workouts sent in this pass
  sender_open,      \* sender: the Sender has not been dropped
  chan,             \* the mpsc channel's queue
  pass,             \* number of insert_records calls started on the store
  ipc,              \* insert_records: position ("begin", "recv", "for", "ok", "err")
  db,               \* the store's committed tables
  tx,               \* insert_records: Some(tables as the open transaction sees them)
  w,                \* insert_records: the Workout received (None outside an Ok arm)
  geopoly_res,      \* insert_records: the local geopoly (None outside an Ok arm)
  ridx,             \* insert_records: number of records the for loop has visited
  row_values,       \* insert_records: the Vec declared on line 111
  inner_row_values, \* insert_records: the Vec declared on line 114, as last built
  handled,          \* history: the Workouts try_recv has returned, over all passes
  pin,              \* pure functions: the input drawn
  pout              \* pure functions: Some(value returned)

loadVars ==
  <<path, events, lpc, pos, records, current_element, record, activity,
    timestamp, result>>

mainVars == <<is_file, files, mpc, fidx, workouts>>

storeVars ==
  <<concurrency, batch, sent, sender_open, chan, pass, ipc, db, tx, w, geopoly_res, ridx,
    row_values, inner_row_values, handled>>

pureVars == <<pin, pout>>

vars == <<loadVars, mainVars, storeVars, pureVars>>

----------------------------------------------------------------------------
(* Bounds *)

MaxTrkpts == 2
MaxPathLen == 2
MaxFiles == 2
MaxBatch == 2
MaxPasses == 2
ChanCap == 1
MaxRecs == 2

----------------------------------------------------------------------------
(* Option and small helpers *)

None == <<>>

Some(x) == <<x>>

IsSome(o) == o # <<>>

Unwrap(o) == o[1]

SeqsUpTo(S, n) == UNION {[1..k -> S] : k \in 0..n}

RECURSIVE Flatten(_)
Flatten(ss) == IF ss = <<>> THEN <<>> ELSE Head(ss) \o Flatten(Tail(ss))

----------------------------------------------------------------------------
(* lib.rs: constants and data types *)

EPSILON == 10

\* strum VARIANTS, in declaration order
VARIANTS == <<"Running", "Cycling", "Unknown">>

GeoPoint(lat, lng) == [lat |-> lat, lng |-> lng]

GeoPointDefault == GeoPoint(0, 0)

RecordDefault ==
  [activity |-> None, ds |-> None, timestamp |-> None, geopoint |-> None,
   elevation |-> None, heartrate |-> None, temperature |-> None,
   speed |-> None, course |-> None, hAcc |-> None, vAcc |-> None]

Workout(a, t, rs) == [activity |-> a, timestamp |-> t, records |-> rs]

----------------------------------------------------------------------------
(* Texts.  A text is what a string parses to: ty says which parsers accept *)
(* it and v is the value they return.                                      *)
(*   "int"      digits only: accepted by parse::<i32>, <f32> and <f64>     *)
(*   "dec"      a decimal number: accepted by parse::<f32> and <f64> only  *)
(*   "time"     YYYY-MM-DDTHH:MM:SS.mmmZ of a valid date-time              *)
(*   "timeNoMs" YYYY-MM-DDTHH:MM:SSZ, no millisecond part                  *)
(*   "junk"     anything else                                              *)

Text(ty, v) == [ty |-> ty, v |-> v]

Ok(v) == [ok |-> TRUE, v |-> v]

Err(e) == [ok |-> FALSE, v |-> e]

parse_f(t) == IF t.ty \in {"int", "dec"} THEN Ok(t.v) ELSE Err("ParseFloatError")

parse_i32(t) == IF t.ty = "int" THEN Ok(t.v) ELSE Err("ParseIntError")

\* RECORD_TIMESTAMP only matches a text with a millisecond part; replace_all
\* leaves any other text as it is, and that text does not parse under
\* RECORD_DATETIME_FMT.
get_record_timestamp(t) == IF t.ty = "time" THEN Ok(t.v) ELSE Err("ParseError")

----------------------------------------------------------------------------
(* Paths.  A path is a sequence of tokens and its text is the tokens'      *)
(* spellings put together, so a keyword can also come about across two     *)
(* tokens ("Runnin" then "g").  The activity regex is matched on the text.  *)
(* No date token holds a letter, so the date regex is matched on tokens.    *)

Keywords == {VARIANTS[i] : i \in 1..Len(VARIANTS)}

\* tokens that match REGEX_CHARS; "DBAD" has the shape but is no calendar date
DateShaped == {"D1", "DBAD"}

PathTokens == Keywords \cup DateShaped \cup {"x", "running", "Runnin", "g"}

Spell(tok) ==
  CASE tok = "Running" -> <<"R", "u", "n", "n", "i", "n", "g">>
    [] tok = "Cycling" -> <<"C", "y", "c", "l", "i", "n", "g">>
    [] tok = "Unknown" -> <<"U", "n", "k", "n", "o", "w", "n">>
    [] tok = "running" -> <<"r", "u", "n", "n", "i", "n", "g">>
    [] tok = "Runnin" -> <<"R", "u", "n", "n", "i", "n">>
    [] tok = "g" -> <<"g">>
    [] tok = "x" -> <<"x">>
    [] tok = "D1" ->
         <<"2", "0", "2", "4", "-", "0", "1", "-", "0", "2", "-",
           "0", "3", "0", "4", "0", "5">>
    [] tok = "DBAD" ->
         <<"2", "0", "2", "4", "-", "1", "3", "-", "4", "5", "-",
           "9", "9", "9", "9", "9", "9">>

PathText(p) == Flatten([i \in 1..Len(p) |-> Spell(p[i])])

\* NaiveDateTime::parse_from_str(..).timestamp() of a date token
ParseDate(tok) == IF tok = "D1" THEN Ok(1704164645) ELSE Err("ParseError")

FirstIn(p, S) ==
  IF \E i \in 1..Len(p) : p[i] \in S
  THEN Some(p[CHOOSE i \in 1..Len(p) :
                /\ p[i] \in S
                /\ \A j \in 1..(i-1) : p[j] \notin S])
  ELSE None

\* the literal lit occurs in s at position i
LiteralAt(s, i, lit) ==
  /\ i + Len(lit) - 1 <= Len(s)
  /\ SubSeq(s, i, i + Len(lit) - 1) = lit

\* ACTIVITY_EXPR.captures: the alternation VARIANTS.join("|") matched
\* leftmost-first, i.e. at the earliest position where an alternative
\* matches, the first alternative that matches there
captures(s) ==
  LET hit(i, a) == LiteralAt(s, i, Spell(VARIANTS[a]))
      at == {i \in 1..Len(s) : \E a \in 1..Len(VARIANTS) : hit(i, a)}
  IN IF at = {} THEN None
     ELSE LET i0 == CHOOSE i \in at : \A j \in at : i <= j
              a0 == CHOOSE a \in 1..Len(VARIANTS) :
                      /\ hit(i0, a)
                      /\ \A b \in 1..(a - 1) : ~hit(i0, b)
          IN Some(VARIANTS[a0])

\* the classification taking the first variant, in declaration order, that
\* occurs anywhere in the path
get_activity_by_variant_order(p) ==
  LET s == PathText(p)
      found == {a \in 1..Len(VARIANTS) :
                  \E i \in 1..Len(s) : LiteralAt(s, i, Spell(VARIANTS[a]))}
  IN IF found = {} THEN Ok("Unknown")
     ELSE Ok(VARIANTS[CHOOSE a \in found : \A b \in found : a <= b])

\* ACTIVITY_EXPR.captures(path), then Activity::from_str
get_activity(p) ==
  LET m == captures(PathText(p))
  IN IF IsSome(m) THEN Ok(Unwrap(m)) ELSE Ok("Unknown")

get_workout_timestamp(p) ==
  LET m == FirstIn(p, DateShaped)
  IN IF IsSome(m) THEN ParseDate(Unwrap(m)) ELSE Err("No match found")

----------------------------------------------------------------------------
(* XML events, as xml::reader::EventReader yields them *)

Ev(kind, name, attrs, text) ==
  [kind |-> kind, name |-> name, attrs |-> attrs, text |-> text]

NoText == Text("junk", 0)

StartElement(name, attrs) == Ev("StartElement", name, attrs, NoText)

EndElement(name) == Ev("EndElement", name, <<>>, NoText)

Characters(text) == Ev("Characters", "", <<>>, text)

Whitespace == Ev("Whitespace", "", <<>>, NoText)

StartDocument == Ev("StartDocument", "", <<>>, NoText)

EndDocument == Ev("EndDocument", "", <<>>, NoText)

\* the reader's Err(e) item for malformed XML
XmlError == Ev("Error", "", <<>>, NoText)

Attr(name, value) == [name |-> name, value |-> value]

Field(name, text) == <<StartElement(name, <<>>), Characters(text), EndElement(name)>>

Trkpt(lat, lon, body) ==
  <<StartElement("trkpt", <<Attr("lat", lat), Attr("lon", lon)>>)>>
  \o body \o <<EndElement("trkpt")>>

\* the trackpoint shapes documents are built from
TrkptKinds ==
  { Trkpt(Text("dec", 1000), Text("dec", 2000),
          Field("ele", Text("dec", 5)) \o Field("time", Text("time", 111))
            \o Field("hr", Text("int", 72))),
    Trkpt(Text("dec", 3000), Text("dec", 4000),
          <<Whitespace>> \o Field("time", Text("time", 222))),
    Trkpt(Text("int", 0), Text("int", 0), <<>>),
    Trkpt(Text("dec", 1000), Text("dec", 2000), Field("hr", Text("dec", 72))),
    Trkpt(Text("junk", 0), Text("dec", 2000), <<>>),
    Trkpt(Text("dec", 5000), Text("dec", 6000),
          Field("time", Text("timeNoMs", 333))),
    <<XmlError>> }

Document(trkpts) ==
  <<StartDocument, StartElement("gpx", <<>>)>> \o Flatten(trkpts)
  \o <<EndElement("gpx"), EndDocument>>

Documents == {Document(ts) : ts \in SeqsUpTo(TrkptKinds, MaxTrkpts)}

Paths == SeqsUpTo(PathTokens, MaxPathLen)

\* the number of trackpoint elements of a document
NumTrkpts(evs) ==
  Cardinality({i \in 1..Len(evs) :
                 evs[i].kind = "EndElement" /\ evs[i].name = "trkpt"})

----------------------------------------------------------------------------
(* lib.rs: Record *)

SetField(r, f, p) == IF p.ok THEN Ok([r EXCEPT ![f] = Some(p.v)]) ELSE p

\* Record::load_data for the one-entry map {key: t} that load_gpx passes
load_data(r, key, t) ==
  IF key = "ele" THEN SetField(r, "elevation", parse_f(t))
  ELSE IF key = "time" THEN SetField(r, "timestamp", get_record_timestamp(t))
  ELSE IF key = "hr" THEN SetField(r, "heartrate", parse_i32(t))
  ELSE IF key = "atemp" THEN SetField(r, "temperature", parse_i32(t))
  ELSE IF key = "speed" THEN SetField(r, "speed", parse_f(t))
  ELSE IF key = "course" THEN SetField(r, "course", parse_f(t))
  ELSE IF key = "hAcc" THEN SetField(r, "hAcc", parse_f(t))
  ELSE IF key = "vAcc" THEN SetField(r, "vAcc", parse_f(t))
  ELSE Ok(r)

_null_island(r) ==
  IF IsSome(r.geopoint)
  THEN LET g == Unwrap(r.geopoint)
       IN g.lat * g.lat + g.lng * g.lng <= EPSILON * EPSILON
  ELSE FALSE

\* validate with the timestamp left out of the populated-field test
validate_without_timestamp(r) ==
  /\ ~_null_island(r)
  /\ ~(/\ r.elevation = None
       /\ r.heartrate = None
       /\ r.temperature = None
       /\ r.speed = None
       /\ r.course = None
       /\ r.hAcc = None
       /\ r.vAcc = None)

validate(r) ==
  /\ ~_null_island(r)
  /\ ~(/\ r.elevation = None
       /\ r.timestamp = None
       /\ r.heartrate = None
       /\ r.temperature = None
       /\ r.speed = None
       /\ r.course = None
       /\ r.hAcc = None
       /\ r.vAcc = None)

----------------------------------------------------------------------------
(* lib.rs: Workout::geopoly.  A String is a sequence of pieces; format!'s  *)
(* "{}" of an f64 is the piece ToString gives for the fixed-point value,   *)
(* which differs from the literal piece "0.0" as "0" does in the source.   *)

Fmt(x) == ToString(x)

RECURSIVE Join(_, _)
Join(ss, sep) ==
  IF ss = <<>> THEN <<>>
  ELSE IF Len(ss) = 1 THEN Head(ss)
  ELSE Head(ss) \o <<sep>> \o Join(Tail(ss), sep)

\* the closure of filter_map: Some(text) keeps the record, None drops it
\* the closure keeping only the records that pass validate
Coord_valid_only(r) ==
  LET v == Ok(validate(r))
  IN IF v.ok /\ v.v
     THEN Some(IF IsSome(r.geopoint)
               THEN <<"[", Fmt(Unwrap(r.geopoint).lat), ",",
                      Fmt(Unwrap(r.geopoint).lng), "]">>
               ELSE <<"[", "0.0", ",", "0.0", "]">>)
     ELSE None

Coord(r) ==
  LET v == Ok(validate(r))
  IN IF v.ok
     THEN Some(IF IsSome(r.geopoint)
               THEN <<"[", Fmt(Unwrap(r.geopoint).lat), ",",
                      Fmt(Unwrap(r.geopoint).lng), "]">>
               ELSE <<"[", "0.0", ",", "0.0", "]">>)
     ELSE None

RECURSIVE FilterMap(_)
FilterMap(rs) ==
  IF rs = <<>> THEN <<>>
  ELSE LET c == Coord(Head(rs))
       IN (IF IsSome(c) THEN <<Unwrap(c)>> ELSE <<>>) \o FilterMap(Tail(rs))

geopoly(wk) == Ok(<<"'[ ">> \o Join(FilterMap(wk.records), ",") \o <<"]'">>)

----------------------------------------------------------------------------
(* lib.rs: load_gpx *)

\* the for loop over a trkpt element's attributes
RECURSIVE ReadAttrs(_, _)
ReadAttrs(g, attrs) ==
  IF attrs = <<>> THEN Ok(g)
  ELSE LET a == Head(attrs)
           p == parse_f(a.value)
       IN IF a.name = "lat"
          THEN IF p.ok THEN ReadAttrs([g EXCEPT !.lat = p.v], Tail(attrs)) ELSE p
          ELSE IF a.name = "lon"
          THEN IF p.ok THEN ReadAttrs([g EXCEPT !.lng = p.v], Tail(attrs)) ELSE p
          ELSE ReadAttrs(g, Tail(attrs))

\* the stamping with ds taken from the record's own timestamp
Stamp_ds_from_record(r, g, a, t) ==
  [r EXCEPT !.geopoint = Some(g), !.activity = Some(a), !.ds = r.timestamp]

\* the three assignments that follow the match on the event
Stamp(r, g, a, t) ==
  [r EXCEPT !.geopoint = Some(g), !.activity = Some(a), !.ds = Some(t)]

\* One iteration of the for loop on event ev.  st is the loop's state
\* [records, current_element, record]; the value is [status, st] with
\* status "ok" (loop goes on), "err" (a ? returned Err) or "panic".
LoopBody(st, ev, a, t) ==
  LET geopoint0 == GeoPointDefault
      elem == IF ev.kind = "StartElement" THEN ev.name ELSE st.current_element
      g == IF ev.kind = "StartElement" /\ ev.name = "trkpt"
           THEN ReadAttrs(geopoint0, ev.attrs) ELSE Ok(geopoint0)
      d == IF ev.kind = "Characters"
           THEN load_data(st.record, st.current_element, ev.text)
           ELSE Ok(st.record)
  IN IF ev.kind = "Error" THEN [status |-> "panic", st |-> st]
     ELSE IF ~g.ok \/ ~d.ok THEN [status |-> "err", st |-> st]
     ELSE LET r == Stamp(d.v, g.v, a, t)
          IN [status |-> "ok",
              st |-> [records |-> Append(st.records, r),
                      current_element |-> elem,
                      record |-> r]]

LoadIdle ==
  /\ path = <<>>
  /\ events = <<>>
  /\ lpc = "idle"
  /\ pos = 0
  /\ records = <<>>
  /\ current_element = ""
  /\ record = RecordDefault
  /\ activity = None
  /\ timestamp = None
  /\ result = None

\* the match with every activity sent into the parsing arm
MatchActivity_no_unknown_arm(a) == "loop"

\* lines 179-181: the match on the activity; Unknown returns Ok(None)
MatchActivity(a) == IF a = "Unknown" THEN "none" ELSE "loop"

\* lines 176-190: classify the path, then set up the loop
LoadStart ==
  /\ lpc = "start"
  /\ LET a == get_activity(path)
         t == get_workout_timestamp(path)
     IN /\ activity' = Some(a.v)
        /\ IF ~t.ok
           THEN /\ lpc' = "err"
                /\ timestamp' = None
           ELSE /\ timestamp' = Some(t.v)
                /\ lpc' = MatchActivity(a.v)
  /\ pos' = 0
  /\ records' = <<>>
  /\ current_element' = ""
  /\ record' = RecordDefault
  /\ result' = None
  /\ UNCHANGED <<path, events, mainVars, storeVars, pureVars>>

\* lines 191-221: one event
LoadEvent ==
  /\ lpc = "loop"
  /\ pos < Len(events)
  /\ LET b == LoopBody([records |-> records, current_element |-> current_element,
                        record |-> record],
                       events[pos + 1], Unwrap(activity), Unwrap(timestamp))
     IN /\ lpc' = IF b.status = "ok" THEN "loop" ELSE b.status
        /\ records' = b.st.records
        /\ current_element' = b.st.current_element
        /\ record' = b.st.record
  /\ pos' = pos + 1
  /\ UNCHANGED <<path, events, activity, timestamp, result, mainVars, storeVars, pureVars>>

\* lines 222-226: the stream is exhausted
LoadReturn ==
  /\ lpc = "loop"
  /\ pos = Len(events)
  /\ result' = Some(Workout(Unwrap(activity), Unwrap(timestamp), records))
  /\ lpc' = "ok"
  /\ UNCHANGED <<path, events, pos, records, current_element, record, activity,
                 timestamp, mainVars, storeVars, pureVars>>

----------------------------------------------------------------------------
(* main.rs: lines 66-105 *)

File(p, evs) == [path |-> p, events |-> evs]

\* the entries a directory listing is drawn from
DirFiles ==
  { File(<<"Running", "D1">>, Document(<<>>)),
    File(<<"x", "D1">>, Document(<<>>)),
    File(<<"Cycling">>, Document(<<>>)),
    File(<<"x">>, Document(<<>>)),
    File(<<"D1", "Cycling">>,
         Document(<<Trkpt(Text("dec", 1000), Text("dec", 2000),
                          Field("hr", Text("dec", 72)))>>)) }

\* the paths every document is tried under; classification does not read
\* the document, and parsing reads of the path only its activity and epoch
ParsedPaths == {<<"Running", "D1">>, <<"D1", "Cycling">>}

MainInit ==
  /\ is_file \in BOOLEAN
  /\ IF is_file
     THEN files \in {<<File(p, Document(<<>>))>> : p \in Paths}
                     \cup {<<File(p, d)>> : p \in ParsedPaths, d \in Documents}
     ELSE files \in SeqsUpTo(DirFiles, MaxFiles)
  /\ mpc = "load"
  /\ fidx = 0
  /\ workouts = <<>>

\* lines 78 and 93: call load_gpx on the next path
MainCall ==
  /\ mpc = "load"
  /\ fidx < Len(files)
  /\ path' = files[fidx + 1].path
  /\ events' = files[fidx + 1].events
  /\ lpc' = "start"
  /\ fidx' = fidx + 1
  /\ mpc' = "call"
  /\ UNCHANGED <<pos, records, current_element, record, activity, timestamp,
                 result, is_file, files, workouts, storeVars, pureVars>>

\* lines 78-88 and 93-100: load_gpx has returned (or panicked)
MainHandle ==
  /\ mpc = "call"
  /\ lpc \in {"ok", "none", "err", "panic"}
  /\ IF lpc = "ok"
     THEN /\ workouts' = Append(workouts, Unwrap(result))
          /\ mpc' = "load"
     ELSE IF lpc = "none" /\ ~is_file
     THEN /\ mpc' = "load"
          /\ UNCHANGED workouts
     ELSE /\ mpc' = "panic"
          /\ UNCHANGED workouts
  /\ lpc' = "idle"
  /\ UNCHANGED <<path, events, pos, records, current_element, record, activity,
                 timestamp, result, is_file, files, fidx, storeVars, pureVars>>

\* lines 104-105: every entry is loaded; the workouts go to insertion
MainInsert ==
  /\ mpc = "load"
  /\ fidx = Len(files)
  /\ mpc' = "insert"
  /\ UNCHANGED <<loadVars, is_file, files, fidx, workouts, storeVars, pureVars>>

----------------------------------------------------------------------------
(* sql.rs: the store.  A table is the sequence of its rows; a row is the   *)
(* sequence of its column values, each an Option (None is NULL).           *)

EmptyDb == [records |-> <<>>, workouts |-> <<>>, geo |-> <<>>]

\* a statement: its table, its number of ? placeholders, whether it is
\* INSERT OR IGNORE, and the columns of the table's uniqueness constraint
WORKOUT_SQL ==
  [table |-> "workouts", nparams |-> 4, or_ignore |-> TRUE, unique |-> {1}]

RECORD_SQL ==
  [table |-> "records", nparams |-> 8, or_ignore |-> TRUE, unique |-> {1, 2, 3}]

GEO_SQL ==
  [table |-> "geo", nparams |-> 3, or_ignore |-> FALSE, unique |-> {}]

\* a row that collides with params on the statement's unique columns
\* (NULLs never collide)
Conflict(t, stmt, params) ==
  /\ stmt.unique # {}
  /\ \E i \in 1..Len(t[stmt.table]) :
       \A c \in stmt.unique :
         /\ params[c] # None
         /\ t[stmt.table][i][c] = params[c]

\* execute without the parameter-count check: SQLite binds NULL to every
\* placeholder that was given no value
execute_unchecked(t, stmt, params) ==
  LET row == [c \in 1..stmt.nparams |->
                IF c <= Len(params) THEN params[c] ELSE None]
  IN IF Conflict(t, stmt, row)
     THEN IF stmt.or_ignore THEN Ok(t) ELSE Err("ConstraintViolation")
     ELSE Ok([t EXCEPT ![stmt.table] = Append(@, row)])

\* Statement::execute: binding fails unless one value is given per
\* placeholder; then the row is inserted, or skipped under OR IGNORE
execute(t, stmt, params) ==
  IF Len(params) # stmt.nparams THEN Err("InvalidParameterCount")
  ELSE IF Conflict(t, stmt, params)
  THEN IF stmt.or_ignore THEN Ok(t) ELSE Err("ConstraintViolation")
  ELSE Ok([t EXCEPT ![stmt.table] = Append(@, params)])

\* Dropping the Transaction rolls back.  get_connection sets journal_mode =
\* OFF, under which SQLite leaves ROLLBACK of a transaction that has written
\* undefined: the writes may stay.
RollbackOutcomes(d, t) == IF t = d THEN {d} ELSE {d, t}

\* the Vec built on lines 114-125 for a record that passes validate
InnerRow(r) ==
  LET lat == IF IsSome(r.geopoint) THEN Unwrap(r.geopoint).lat ELSE 0
      lng == IF IsSome(r.geopoint) THEN Unwrap(r.geopoint).lng ELSE 0
  IN <<r.ds, r.timestamp, Some(lat), Some(lng), r.elevation, r.heartrate,
       r.temperature>>

\* the values --concurrency is given
ConcurrencyLevels == {1, 2, 8}

\* the Workouts a sender's batch is drawn from
StoreRecords ==
  { [RecordDefault EXCEPT !.activity = Some("Running"), !.ds = Some(100),
       !.geopoint = Some(GeoPoint(1000, 2000)), !.timestamp = Some(111),
       !.heartrate = Some(72)],
    [RecordDefault EXCEPT !.activity = Some("Running"), !.ds = Some(100),
       !.geopoint = Some(GeoPoint(0, 0)), !.timestamp = Some(111)] }

StoreWorkouts ==
  { Workout("Running", 100, rs) : rs \in SeqsUpTo(StoreRecords, MaxRecs) }
  \cup { Workout("Cycling", 200, <<>>) }

StoreIdle ==
  /\ concurrency = 0
  /\ batch = <<>>
  /\ sent = 0
  /\ sender_open = FALSE
  /\ chan = <<>>
  /\ pass = 0
  /\ ipc = "idle"
  /\ db = EmptyDb
  /\ tx = None
  /\ w = None
  /\ geopoly_res = None
  /\ ridx = 0
  /\ row_values = <<>>
  /\ inner_row_values = <<>>
  /\ handled = <<>>

StoreInit ==
  /\ concurrency \in ConcurrencyLevels
  /\ batch \in SeqsUpTo(StoreWorkouts, MaxBatch)
  /\ sent = 0
  /\ sender_open = TRUE
  /\ chan = <<>>
  /\ pass = 1
  /\ ipc = "begin"
  /\ db = EmptyDb
  /\ tx = None
  /\ w = None
  /\ geopoly_res = None
  /\ ridx = 0
  /\ row_values = <<>>
  /\ inner_row_values = <<>>
  /\ handled = <<>>

\* the task that holds the Sender: tx.send(workout)
Send ==
  /\ sender_open
  /\ sent < Len(batch)
  /\ Len(chan) < ChanCap
  /\ chan' = Append(chan, batch[sent + 1])
  /\ sent' = sent + 1
  /\ UNCHANGED <<concurrency, batch, sender_open, pass, ipc, db, tx, w, geopoly_res, ridx,
                 row_values, inner_row_values, handled, loadVars, mainVars,
                 pureVars>>

\* the Sender is dropped once the batch is sent
Close ==
  /\ sender_open
  /\ sent = Len(batch)
  /\ sender_open' = FALSE
  /\ UNCHANGED <<concurrency, batch, sent, chan, pass, ipc, db, tx, w, geopoly_res, ridx,
                 row_values, inner_row_values, handled, loadVars, mainVars,
                 pureVars>>

\* lines 100-105: open the transaction, prepare the statements
InsBegin ==
  /\ ipc = "begin"
  /\ tx' = Some(db)
  /\ ipc' = "recv"
  /\ UNCHANGED <<concurrency, batch, sent, sender_open, chan, pass, db, w, geopoly_res, ridx,
                 row_values, inner_row_values, handled, loadVars, mainVars,
                 pureVars>>

\* lines 107-111: try_recv returns Ok(w)
InsRecvOk ==
  /\ ipc = "recv"
  /\ chan # <<>>
  /\ w' = Some(Head(chan))
  /\ chan' = Tail(chan)
  /\ handled' = Append(handled, Head(chan))
  /\ geopoly_res' = Some(geopoly(Head(chan)))
  /\ row_values' = <<>>
  /\ inner_row_values' = <<>>
  /\ ridx' = 0
  /\ ipc' = "for"
  /\ UNCHANGED <<concurrency, batch, sent, sender_open, pass, db, tx, loadVars, mainVars,
                 pureVars>>

\* lines 144-151, 156: try_recv returns Empty or Disconnected; break leaves
\* the loop before the commit, the Transaction is dropped, Ok(()) returned
InsRecvNone ==
  /\ ipc = "recv"
  /\ chan = <<>>
  /\ db' \in RollbackOutcomes(db, Unwrap(tx))
  /\ tx' = None
  /\ ipc' = "ok"
  /\ UNCHANGED <<concurrency, batch, sent, sender_open, chan, pass, w, geopoly_res, ridx,
                 row_values, inner_row_values, handled, loadVars, mainVars,
                 pureVars>>

\* lines 112-127: one record of the for loop
InsForRecord ==
  /\ ipc = "for"
  /\ ridx < Len(Unwrap(w).records)
  /\ LET r == Unwrap(w).records[ridx + 1]
     IN inner_row_values' = IF validate(r) THEN InnerRow(r) ELSE <<>>
  /\ ridx' = ridx + 1
  /\ UNCHANGED <<concurrency, batch, sent, sender_open, chan, pass, ipc, db, tx, w,
                 geopoly_res, row_values, handled, loadVars, mainVars, pureVars>>

\* lines 128-143: the record statement, then the polygon statement, on the
\* transaction's tables t0; Err carries the tables as the failure left them
WriteWorkout(t0, wk, rv, gp) ==
  LET e1 == execute(t0, RECORD_SQL, rv)
  IN IF ~e1.ok THEN [ok |-> FALSE, v |-> t0]
     ELSE LET e2 == IF gp.ok
                    THEN execute(e1.v, GEO_SQL,
                                 <<Some(wk.activity), Some(wk.timestamp),
                                   Some(gp.v)>>)
                    ELSE Err("Unable to insert geospatial coordinates")
          IN IF ~e2.ok THEN [ok |-> FALSE, v |-> e1.v] ELSE Ok(e2.v)

\* lines 128-143, 153-154: execute the record statement and the polygon
\* statement, then commit; an Err returned by ? drops the Transaction
InsExecute ==
  /\ ipc = "for"
  /\ ridx = Len(Unwrap(w).records)
  /\ LET r == WriteWorkout(Unwrap(tx), Unwrap(w), row_values, Unwrap(geopoly_res))
     IN IF ~r.ok
        THEN /\ db' \in RollbackOutcomes(db, r.v)
             /\ ipc' = "err"
        ELSE /\ db' = r.v
             /\ ipc' = "begin"
  /\ tx' = None
  /\ w' = None
  /\ geopoly_res' = None
  /\ UNCHANGED <<concurrency, batch, sent, sender_open, chan, pass, ridx,
                 row_values, inner_row_values, handled, loadVars, mainVars,
                 pureVars>>

\* the program is run again on the same input: a new channel and a new
\* insert_records call on the same store
Rerun ==
  /\ ipc \in {"ok", "err"}
  /\ pass < MaxPasses
  /\ pass' = pass + 1
  /\ sent' = 0
  /\ sender_open' = TRUE
  /\ chan' = <<>>
  /\ ipc' = "begin"
  /\ ridx' = 0
  /\ row_values' = <<>>
  /\ inner_row_values' = <<>>
  /\ UNCHANGED <<concurrency, batch, db, tx, w, geopoly_res, handled, loadVars, mainVars,
                 pureVars>>

MainIdle ==
  /\ is_file = FALSE
  /\ files = <<>>
  /\ mpc = "idle"
  /\ fidx = 0
  /\ workouts = <<>>

NoInput == [kind |-> "none", v |-> 0]

PureIdle ==
  /\ pin = NoInput
  /\ pout = None

InitStore ==
  /\ LoadIdle
  /\ MainIdle
  /\ PureIdle
  /\ StoreInit

NextStore ==
  \/ Send
  \/ Close
  \/ InsBegin
  \/ InsRecvOk
  \/ InsRecvNone
  \/ InsForRecord
  \/ InsExecute
  \/ Rerun

SpecStore == InitStore /\ [][NextStore]_vars

----------------------------------------------------------------------------
(* Record::validate and Workout::geopoly applied to drawn inputs *)

SensorFields ==
  {"elevation", "heartrate", "temperature", "speed", "course", "hAcc", "vAcc",
   "timestamp"}

\* (6,8) and (-6,-8) lie at distance EPSILON exactly; (8,8) lies farther
\* although each coordinate is below EPSILON
PureGeoPoints ==
  {None, Some(GeoPoint(0, 0)), Some(GeoPoint(6, 8)), Some(GeoPoint(-6, -8)),
   Some(GeoPoint(8, 8)), Some(GeoPoint(10, 1)), Some(GeoPoint(1000, 2000))}

PureRecord(g, S, stamped) ==
  [f \in DOMAIN RecordDefault |->
     IF f = "geopoint" THEN g
     ELSE IF f \in S THEN Some(1)
     ELSE IF f = "activity" /\ stamped THEN Some("Running")
     ELSE IF f = "ds" /\ stamped THEN Some(100)
     ELSE None]

PureRecords ==
  {PureRecord(g, S, b) : g \in PureGeoPoints, S \in SUBSET SensorFields,
                         b \in BOOLEAN}

PolyRecords ==
  { PureRecord(Some(GeoPoint(1, 2)), {"elevation"}, TRUE),
    PureRecord(Some(GeoPoint(3, 4)), {"timestamp"}, TRUE),
    PureRecord(Some(GeoPoint(0, 0)), {"heartrate"}, TRUE),
    PureRecord(Some(GeoPoint(1000, 2000)), {}, TRUE),
    PureRecord(None, {"speed"}, FALSE) }

PolyWorkouts == {Workout("Running", 100, rs) : rs \in SeqsUpTo(PolyRecords, MaxRecs)}

PureInit ==
  /\ pin \in {[kind |-> "record", v |-> r] : r \in PureRecords}
            \cup {[kind |-> "workout", v |-> wk] : wk \in PolyWorkouts}
  /\ pout = None

ApplyValidate ==
  /\ pin.kind = "record"
  /\ pout = None
  /\ pout' = Some(validate(pin.v))
  /\ UNCHANGED <<pin, loadVars, mainVars, storeVars>>

ApplyGeopoly ==
  /\ pin.kind = "workout"
  /\ pout = None
  /\ pout' = Some(geopoly(pin.v))
  /\ UNCHANGED <<pin, loadVars, mainVars, storeVars>>

InitPure ==
  /\ LoadIdle
  /\ MainIdle
  /\ StoreIdle
  /\ PureInit

NextPure ==
  \/ ApplyValidate
  \/ ApplyGeopoly

SpecPure == InitPure /\ [][NextPure]_vars

----------------------------------------------------------------------------
(* The loader driven by main *)

Init ==
  /\ LoadIdle
  /\ MainInit
  /\ StoreIdle
  /\ PureIdle

Next ==
  \/ MainCall
  \/ LoadStart
  \/ LoadEvent
  \/ LoadReturn
  \/ MainHandle
  \/ MainInsert

Spec == Init /\ [][Next]_vars

----------------------------------------------------------------------------
(* Rows of a Workout in the store *)

HeaderRows(wk, d) ==
  {i \in 1..Len(d.workouts) :
     /\ d.workouts[i][2] = Some(wk.activity)
     /\ d.workouts[i][3] = Some(wk.timestamp)}

PolyRows(wk, d) ==
  {i \in 1..Len(d.geo) :
     /\ d.geo[i][1] = Some(wk.activity)
     /\ d.geo[i][2] = Some(wk.timestamp)}

\* rows of workout_records that carry record r's columns (any wid)
RecordRows(r, d) ==
  {i \in 1..Len(d.records) : SubSeq(d.records[i], 2, 8) = InnerRow(r)}

ValidRecords(wk) == {i \in 1..Len(wk.records) : validate(wk.records[i])}

AllRows(wk, d) ==
  /\ HeaderRows(wk, d) # {}
  /\ PolyRows(wk, d) # {}
  /\ \A i \in ValidRecords(wk) : RecordRows(wk.records[i], d) # {}

NoRows(wk, d) ==
  /\ HeaderRows(wk, d) = {}
  /\ PolyRows(wk, d) = {}
  /\ \A i \in ValidRecords(wk) : RecordRows(wk.records[i], d) = {}

\* the loop iteration that received handled[k] has ended
IterationOver(k) == k < Len(handled) \/ w = None

Occurrences(wk) == Cardinality({k \in 1..Len(handled) : handled[k] = wk})

----------------------------------------------------------------------------
(* Claims *)

\* C1: a Workout returned by load_gpx holds exactly one record per
\* trackpoint element of the document.
C1_OneRecordPerTrkpt ==
  lpc = "ok" => Len(Unwrap(result).records) = NumTrkpts(events)

C3_IdempotentIngest ==
  \A k \in 1..Len(handled) :
    (ipc \in {"ok", "err"} /\ Occurrences(handled[k]) = 2) =>
      /\ Cardinality(HeaderRows(handled[k], db)) = 1
      /\ Cardinality(PolyRows(handled[k], db)) = 1
      /\ \A i \in ValidRecords(handled[k]) :
           Cardinality(RecordRows(handled[k].records[i], db)) = 1

\* C4: once insert_records has handled a Workout, the store holds exactly
\* one workout_records row for each of its records that passes validate and
\* none for a record that does not.
C4_RowPerValidRecord ==
  \A k \in 1..Len(handled) :
    IterationOver(k) =>
      \A i \in 1..Len(handled[k].records) :
        Cardinality(RecordRows(handled[k].records[i], db))
          = IF validate(handled[k].records[i]) THEN 1 ELSE 0

\* C5: once insert_records has handled a Workout, the workouts table holds
\* one header row with that Workout's activity and reference timestamp.
C5_HeaderRow ==
  \A k \in 1..Len(handled) :
    IterationOver(k) => Cardinality(HeaderRows(handled[k], db)) = 1

\* C6: when a write of one Workout has failed and insert_records has ended,
\* every other Workout of the batch is persisted.
C6_SiblingsPersisted ==
  (pass = 1 /\ ipc = "err") =>
    \A k \in 1..Len(batch) : k # Len(handled) => AllRows(batch[k], db)

\* C7: for a path classified Unknown, load_gpx returns no Workout and no
\* error, and main does not fail.
C7_UnknownSkipped ==
  (IsSome(activity) /\ Unwrap(activity) = "Unknown") =>
    /\ lpc \notin {"err", "panic"}
    /\ result = None
    /\ mpc # "panic"

\* C8: validate returns true exactly when the GeoPoint is not within
\* EPSILON of the origin and at least one of the eight sensor fields
\* (the record's own timestamp included) is populated.
C8_ValidateIff ==
  (pin.kind = "record" /\ IsSome(pout)) =>
    LET r == pin.v
        near == /\ IsSome(r.geopoint)
                /\ Unwrap(r.geopoint).lat * Unwrap(r.geopoint).lat
                     + Unwrap(r.geopoint).lng * Unwrap(r.geopoint).lng
                   <= EPSILON * EPSILON
        populated == \E f \in SensorFields : IsSome(r[f])
    IN Unwrap(pout) = (~near /\ populated)

\* validate has returned true for a record whose only populated sensor
\* field is its timestamp, at a point farther than EPSILON from the origin
\* whose coordinates are each below EPSILON
C8_Witness ==
  /\ pin.kind = "record"
  /\ pout = Some(TRUE)
  /\ pin.v.geopoint = Some(GeoPoint(8, 8))
  /\ {f \in SensorFields : IsSome(pin.v[f])} = {"timestamp"}

\* C9: geopoly emits one pair per record, in record order, whether or not
\* the record passes validate; no records give the empty list body.
C9_PairPerRecord ==
  (pin.kind = "workout" /\ IsSome(pout)) =>
    LET rs == pin.v.records
        s == Unwrap(pout).v
        pair(k) == SubSeq(s, 6 * k - 4, 6 * k)
        expect(r) ==
          IF IsSome(r.geopoint)
          THEN <<"[", ToString(Unwrap(r.geopoint).lat), ",",
                 ToString(Unwrap(r.geopoint).lng), "]">>
          ELSE <<"[", "0.0", ",", "0.0", "]">>
    IN /\ Unwrap(pout).ok
       /\ Cardinality({j \in 1..Len(s) : s[j] = "["}) = Len(rs)
       /\ Len(s) = IF rs = <<>> THEN 2 ELSE 6 * Len(rs) + 1
       /\ \A k \in 1..Len(rs) : pair(k) = expect(rs[k])
       /\ rs = <<>> => s = <<"'[ ", "]'">>

\* geopoly has returned for a Workout of two records of which the first
\* fails validate
C9_Witness ==
  /\ pin.kind = "workout"
  /\ IsSome(pout)
  /\ Len(pin.v.records) = 2
  /\ ~validate(pin.v.records[1])
  /\ validate(pin.v.records[2])

\* C10: in every Workout load_gpx returns, each record's ds is the
\* Workout's timestamp.
C10_DsIsWorkoutTimestamp ==
  /\ IsSome(result) =>
       \A i \in 1..Len(Unwrap(result).records) :
         Unwrap(result).records[i].ds = Some(Unwrap(result).timestamp)
  /\ \A j \in 1..Len(workouts) :
       \A i \in 1..Len(workouts[j].records) :
         workouts[j].records[i].ds = Some(workouts[j].timestamp)

\* load_gpx has returned a Workout for a document with a trackpoint that
\* carries its own time
C10_Witness ==
  /\ lpc = "ok"
  /\ NumTrkpts(events) >= 1
  /\ \E i \in 1..Len(Unwrap(result).records) :
       IsSome(Unwrap(result).records[i].timestamp)

\* C11: no Workout load_gpx returns, and none main collects for
\* insert_records, has activity Unknown.
C11_NeverUnknown ==
  /\ IsSome(result) => Unwrap(result).activity # "Unknown"
  /\ \A j \in 1..Len(workouts) : workouts[j].activity # "Unknown"

\* main has gone through a directory in which one path was classified
\* Unknown and another gave a Workout, and hands its workouts to insertion
C11_Witness ==
  /\ mpc = "insert"
  /\ workouts # <<>>
  /\ \E k \in 1..Len(files) : get_activity(files[k].path).v = "Unknown"

\* C12: get_activity returns Unknown when no keyword occurs in the path
\* text, the keyword's activity when exactly one keyword occurs, and
\* otherwise the activity of the keyword that occurs earliest.
C12_EarliestKeyword ==
  (IsSome(activity) /\ lpc # "start") =>
    LET s == PathText(path)
        occ(k) == {i \in 1..Len(s) :
                     /\ i + Len(Spell(k)) - 1 <= Len(s)
                     /\ \A j \in 1..Len(Spell(k)) : s[i + j - 1] = Spell(k)[j]}
        present == {k \in Keywords : occ(k) # {}}
        a == Unwrap(activity)
    IN /\ present = {} => a = "Unknown"
       /\ present # {} =>
            /\ a \in present
            /\ \A k \in present : \E i \in occ(a) : \A j \in occ(k) : i <= j
       /\ Cardinality(present) = 1 => present = {a}

\* a path in which Cycling occurs before Running has been classified
C12_Witness ==
  /\ lpc # "start"
  /\ path = <<"Cycling", "Running">>
  /\ activity = Some("Cycling")

\* the loop of insert_records run on the Workouts ws with none of them
\* missing when try_recv is called
RECURSIVE IngestInOrder(_, _)
IngestInOrder(d, ws) ==
  IF ws = <<>> THEN d
  ELSE LET r == WriteWorkout(d, Head(ws), <<>>, geopoly(Head(ws)))
       IN IF r.ok THEN IngestInOrder(r.v, Tail(ws)) ELSE d

RowCounts(d) == <<Len(d.records), Len(d.workouts), Len(d.geo)>>

C14_ErrorAbortsOneFile ==
  [][(~is_file /\ mpc = "call" /\ lpc = "err") => mpc' = "load"]_vars

----------------------------------------------------------------------------
(* What a document says about its trackpoints *)

\* the element that feeds each field of a Record
XmlName(f) ==
  CASE f = "elevation" -> "ele"
    [] f = "timestamp" -> "time"
    [] f = "heartrate" -> "hr"
    [] f = "temperature" -> "atemp"
    [] f = "speed" -> "speed"
    [] f = "course" -> "course"
    [] f = "hAcc" -> "hAcc"
    [] f = "vAcc" -> "vAcc"

TrkptEnds(evs) ==
  {i \in 1..Len(evs) : evs[i].kind = "EndElement" /\ evs[i].name = "trkpt"}

\* the start event of the trackpoint element that closes at event i
TrkptStart(evs, i) ==
  CHOOSE j \in 1..(i - 1) :
    /\ evs[j].kind = "StartElement" /\ evs[j].name = "trkpt"
    /\ \A k \in (j + 1)..(i - 1) :
         ~(evs[k].kind = "StartElement" /\ evs[k].name = "trkpt")

\* the value the trackpoint closing at event i gives for field f
OwnField(evs, i, f) ==
  LET at == {j \in (TrkptStart(evs, i) + 1)..(i - 1) :
               /\ evs[j].kind = "Characters"
               /\ evs[j - 1].kind = "StartElement"
               /\ evs[j - 1].name = XmlName(f)}
  IN IF at = {} THEN None
     ELSE Some(evs[CHOOSE j \in at : \A k \in at : k <= j].text.v)

\* the lat/lon attributes of the trackpoint closing at event i
OwnGeoPoint(evs, i) ==
  LET attrs == evs[TrkptStart(evs, i)].attrs
      val(n) == attrs[CHOOSE a \in 1..Len(attrs) : attrs[a].name = n].value.v
  IN GeoPoint(val("lat"), val("lon"))

\* the document holds a malformed-XML event, a field text or a lat/lon
\* attribute that does not parse as its type
Malformed(evs) ==
  \E i \in 1..Len(evs) :
    \/ evs[i].kind = "Error"
    \/ /\ evs[i].kind = "Characters"
       /\ i > 1
       /\ evs[i - 1].kind = "StartElement"
       /\ ~load_data(RecordDefault, evs[i - 1].name, evs[i].text).ok
    \/ /\ evs[i].kind = "StartElement"
       /\ evs[i].name = "trkpt"
       /\ \E a \in 1..Len(evs[i].attrs) :
            /\ evs[i].attrs[a].name \in {"lat", "lon"}
            /\ ~parse_f(evs[i].attrs[a].value).ok

\* C15: in a Workout load_gpx returns, the Record finalized when a
\* trackpoint closes carries, in each sensor field, exactly the value that
\* trackpoint's own field element gives, and nothing when it has none.
C15_OwnFieldsOnly ==
  lpc = "ok" =>
    \A i \in TrkptEnds(events) :
      i <= Len(Unwrap(result).records) =>
        \A f \in SensorFields :
          Unwrap(result).records[i][f] = OwnField(events, i, f)

\* C16: in a Workout load_gpx returns, the Record finalized when a
\* trackpoint closes carries the GeoPoint of that trackpoint's lat/lon
\* attributes together with that trackpoint's own field values.
C16_OwnGeoPoint ==
  lpc = "ok" =>
    \A i \in TrkptEnds(events) :
      i <= Len(Unwrap(result).records) =>
        /\ Unwrap(result).records[i].geopoint = Some(OwnGeoPoint(events, i))
        /\ \A f \in SensorFields :
             IsSome(OwnField(events, i, f)) =>
               Unwrap(result).records[i][f] = OwnField(events, i, f)

\* C17: load_gpx never panics, and it returns no Workout for a document
\* that holds a malformed event or an unparsable field or attribute text.
C17_ErrorsAreReturned ==
  /\ lpc # "panic"
  /\ lpc = "ok" => ~Malformed(events)

\* C18: insert_records does not return Ok while the sender is open and has
\* Workouts left to send or the channel holds one; when it returns Ok every
\* Workout of the batch has been received and persisted.
C18_StopsOnlyWhenDrained ==
  (pass = 1 /\ ipc = "ok") =>
    /\ ~(sender_open /\ sent < Len(batch))
    /\ chan = <<>>
    /\ handled = batch
    /\ \A k \in 1..Len(batch) : AllRows(batch[k], db)

====
